---- MODULE Spec2Model ----
(***************************************************************************)
(* Model of the ap_client node: the node assembly with its supervisor      *)
(* (src/lib.rs), the client logic thread (src/client.rs) and the shared    *)
(* dispatch of the ClientLogic trait (src/logic.rs).                        *)
(*                                                                         *)
(* Text is a sequence of one-character strings, so that the media-citation *)
(* regex is modelled by scanning characters.                               *)
(***************************************************************************)
EXTENDS Integers, Sequences, FiniteSets, TLC

\* ------------------------------------------------------------------ bounds
MaxScript == 2
MaxInbound == 1
MaxPieces == 2
MaxQuits == 1
MaxBacklog == 2

\* ------------------------------------------------------------------ inputs
ClientIds == {1}
Nodes == {5, 7}
RngValues == {0, 1}
InboundSessions == {42}

VARIABLES
    node_id,                \* Client.node_id
    actions,                \* Client.actions: the scripted (destination, request) pairs
    action_index,           \* position of the for loop of Client::run in actions
    logic_pc,               \* where the logic thread is in Client::run
    logic_command,          \* pending ClientCommand::Quit on the logic command channel
    listener_to_server_logic, \* inbox: messages sent by the listener, not yet received
    logic_to_transmitter,   \* outbox: every message the logic has sent, in order
    last_received,          \* the message of the last "Received message" log line
    sup_pc,                 \* where the caller of run is (DibClient::run / DibServerTrait::run)
    command,                \* pending Command::Quit on the supervisor command channel
    command_tx_dropped,     \* the caller dropped the supervisor command sender
    quit_sends,             \* the fan-out sends of the supervisor, in the order made
    listener_pc,            \* listener worker thread
    listener_command,       \* pending ListenerCommand::Quit
    transmitter_pc,         \* transmitter worker thread
    transmitter_command,    \* pending TransmitterCommand::Quit
    panic_hook,             \* panic::set_hook has been called
    delivered,              \* number of messages the listener has pushed on the inbox
    disconnected,           \* the channel endpoints of Client whose peers are all dropped
    quits_requested         \* number of Quit commands the caller has placed

vars == <<node_id, actions, action_index, logic_pc, logic_command,
          listener_to_server_logic, logic_to_transmitter, last_received,
          sup_pc, command, command_tx_dropped, quit_sends,
          listener_pc, listener_command, transmitter_pc, transmitter_command,
          panic_hook, delivered, quits_requested, disconnected>>

logic_vars == <<action_index, logic_pc, logic_command, listener_to_server_logic,
                logic_to_transmitter, last_received>>
sup_vars == <<sup_pc, command, quit_sends, panic_hook>>

\* ---------------------------------------------------------------- messages
Message(source, destination, session_id, content) ==
    [source |-> source, destination |-> destination,
     session_id |-> session_id, content |-> content]

Request(request_type) == [type |-> "Request", value |-> request_type]
Response(response_type) == [type |-> "Response", value |-> response_type]
Error(error_type) == [type |-> "Error", value |-> error_type]

Variant(family, variant, arg) == [family |-> family, variant |-> variant, arg |-> arg]

Unsupported(request_type) ==
    [family |-> "Unsupported", variant |-> request_type.family, arg |-> request_type]

MediaRequestMedia(name) == Variant("MediaRequest", "Media", name)


\* -------------------------------------------------------------------- text
\* The regex of process_text_response:
\*     \{\{\s*([^{}\s]+\.(png|jpe?g))\s*}}
\* Every character of the capture group is in the class [^{}\s], and the
\* capture is preceded by \s* and followed by \s* and "}}", so a match at
\* position i captures the whole maximal run of class characters that
\* follows "{{" and its whitespace; the run has to end in ".png", ".jpg" or
\* ".jpeg" with at least one character before the dot.
IsSpace(c) == c \in {" ", "\t", "\n"}

IsNameChar(c) == ~IsSpace(c) /\ c \notin {"{", "}"}

RECURSIVE SkipSpace(_, _)
SkipSpace(text, i) ==
    IF i <= Len(text) /\ IsSpace(text[i]) THEN SkipSpace(text, i + 1) ELSE i

RECURSIVE SkipName(_, _)
SkipName(text, i) ==
    IF i <= Len(text) /\ IsNameChar(text[i]) THEN SkipName(text, i + 1) ELSE i

LiteralAt(text, i, literal) ==
    /\ i + Len(literal) - 1 <= Len(text)
    /\ SubSeq(text, i, i + Len(literal) - 1) = literal

\* The alternation with gif accepted as well.
Extensions_with_gif ==
    { <<".", "p", "n", "g">>, <<".", "j", "p", "g">>, <<".", "j", "p", "e", "g">>,
      <<".", "g", "i", "f">> }

\* The alternation (png|jpe?g) of the regex, with the dot before it.
Extensions ==
    { <<".", "p", "n", "g">>, <<".", "j", "p", "g">>, <<".", "j", "p", "e", "g">> }

HasMediaExtension(name) ==
    \E ext \in Extensions :
        /\ Len(name) > Len(ext)
        /\ SubSeq(name, Len(name) - Len(ext) + 1, Len(name)) = ext

NoMatch == [ok |-> FALSE, capture |-> <<>>, next |-> 0]

\* One attempt of the regex anchored at position i of text.
MatchAt(text, i) ==
    IF ~LiteralAt(text, i, <<"{", "{">>) THEN NoMatch
    ELSE LET start == SkipSpace(text, i + 2)
             stop == SkipName(text, start)
             capture == SubSeq(text, start, stop - 1)
             close == SkipSpace(text, stop)
         IN  IF HasMediaExtension(capture) /\ LiteralAt(text, close, <<"}", "}">>)
             THEN [ok |-> TRUE, capture |-> capture, next |-> close + 2]
             ELSE NoMatch

\* re.captures_iter(text): the capture group 1 of the leftmost
\* non-overlapping matches, in order. from[i] is what the scan yields from
\* position i on.
captures_iter(text) ==
    LET from[i \in 1..(Len(text) + 1)] ==
            IF i > Len(text) THEN <<>>
            ELSE LET m == MatchAt(text, i)
                 IN  IF m.ok THEN <<m.capture>> \o from[m.next] ELSE from[i + 1]
    IN  from[1]

\* medias with a name pushed only the first time it is captured.
medias_distinct(text) ==
    LET all == captures_iter(text)
        first == { i \in 1..Len(all) : \A j \in 1..(i - 1) : all[j] # all[i] }
        pick[n \in 0..Len(all)] ==
            IF n = 0 THEN <<>>
            ELSE IF n \in first THEN Append(pick[n - 1], all[n]) ELSE pick[n - 1]
    IN  pick[Len(all)]

\* The vector medias after the loop over re.captures_iter(text): every
\* capture pushed, in order.
medias(text) == captures_iter(text)

\* ------------------------------------------------------------ text inputs
\* Bodies are concatenations of at most MaxPieces pieces.
NamePng == <<"a", ".", "p", "n", "g">>
NameJpeg == <<"b", ".", "j", "p", "e", "g">>
NameJpg == <<"c", ".", "j", "p", "g">>
NameGif == <<"x", ".", "g", "i", "f">>

Cite(before, name, after) == <<"{", "{">> \o before \o name \o after \o <<"}", "}">>

ValidCitations ==
    { [text |-> Cite(<<" ">>, NamePng, <<" ">>), name |-> NamePng],
      [text |-> Cite(<<>>, NameJpeg, <<>>), name |-> NameJpeg],
      [text |-> Cite(<<>>, NameJpg, <<" ">>), name |-> NameJpg] }

OtherPieces ==
    { [text |-> Cite(<<" ">>, NameGif, <<" ">>), name |-> <<>>],
      [text |-> <<"h", "i", " ">>, name |-> <<>>] }

Pieces == ValidCitations \cup OtherPieces

SeqsUpTo(S, n) == UNION { [1..k -> S] : k \in 0..n }

RECURSIVE Render(_)
Render(pieces) ==
    IF pieces = <<>> THEN <<>> ELSE Head(pieces).text \o Render(Tail(pieces))

Bodies == { Render(ps) : ps \in SeqsUpTo(Pieces, MaxPieces) }


\* ----------------------------------------------------------- other inputs
Doc == <<"d", "o", "c">>

TextRequestText(name) == Variant("TextRequest", "Text", name)
TextRequestTextList == Variant("TextRequest", "TextList", <<>>)
MediaRequestMediaList == Variant("MediaRequest", "MediaList", <<>>)

\* The scripted actions a script is built from: (destination, request).
ScriptActions == { <<5, TextRequestText(Doc)>>, <<7, MediaRequestMediaList>> }

InboundRequests == { TextRequestTextList, MediaRequestMedia(NamePng) }

TextResponseText(body) == Variant("TextResponse", "Text", body)

\* Responses that every handler only logs.
LoggedResponses ==
    { Variant("TextResponse", "TextList", <<Doc>>),
      Variant("TextResponse", "NotFound", Doc),
      Variant("MediaResponse", "MediaList", <<NamePng>>),
      Variant("MediaResponse", "NotFound", NamePng),
      Variant("ChatResponse", "ClientList", <<5>>),
      Variant("ChatResponse", "MessageFrom", <<"h", "i">>),
      Variant("ChatResponse", "MessageSent", <<>>),
      Variant("DiscoveryResponse", "ServerType", <<"t", "e", "x", "t">>) }

MediaResponseMedia == Variant("MediaResponse", "Media", <<"b", "y", "t", "e", "s">>)

\* A payload that is no image: decode() fails on it.
NotAnImage == <<"t", "x", "t">>

InboundErrors ==
    { Unsupported(TextRequestText(Doc)),
      [family |-> "Unexpected", variant |-> "", arg |-> <<>>] }

InboundContents ==
    { Request(r) : r \in InboundRequests }
    \cup { Response(TextResponseText(body)) : body \in Bodies }
    \cup { Response(r) : r \in LoggedResponses }
    \cup { Response(MediaResponseMedia),
           Response(Variant("MediaResponse", "Media", NotAnImage)) }
    \cup { Error(e) : e \in InboundErrors }

\* Every message the listener can hand over, from any node.
InboundMessages ==
    { Message(source, node_id, session_id, content) :
        source \in Nodes, session_id \in InboundSessions, content \in InboundContents }

\* The messages that arrive while the whole node runs: the inbound messages
\* of the scenarios S1 (a request), S2 (a text citing a.png and b.jpeg), S5
\* (a text that was not found), and a media payload.
BodyS2 ==
    <<"h", "e", "l", "l", "o", " ">> \o Cite(<<" ">>, NamePng, <<" ">>)
        \o <<" ", "w", "o", "r", "l", "d", " ">> \o Cite(<<>>, NameJpeg, <<>>)
        \o <<" ", "e", "n", "d">>

Traffic ==
    { Message(7, node_id, 42, Request(TextRequestTextList)),
      Message(5, node_id, 42, Response(TextResponseText(BodyS2))),
      Message(7, node_id, 42, Response(TextResponseText(BodyS2))),
      Message(5, node_id, 42, Response(Variant("TextResponse", "NotFound", Doc))),
      Message(5, node_id, 42, Response(MediaResponseMedia)) }

\* ------------------------------------------------------------ ClientLogic
\* create_message with the receiver as source.
create_message_from_destination(session_id, destination, content) ==
    Message(destination, destination, session_id, content)

\* ClientLogic::create_message
create_message(session_id, destination, content) ==
    Message(node_id, destination, session_id, content)

\* process_request answering with session id 0 instead of the request's.
process_request_new_session(session_id, source, request_type) ==
    << Message(node_id, source, 0, Error(Unsupported(request_type))) >>

\* ClientLogic::process_request with send_message_to_transmitter: the
\* messages it sends.
process_request(session_id, source, request_type) ==
    << create_message(session_id, source, Error(Unsupported(request_type))) >>

\* process_error answering the error with an error.
process_error_replying(session_id, source_id, error_type) ==
    << Message(node_id, source_id, session_id, Error(error_type)) >>

\* ClientLogic::process_error: a log line.
process_error(session_id, source_id, error_type) == <<>>

\* process_text_response sending its requests to node 5, the destination of
\* the scripted text request, instead of the source of the response.
process_text_response_to_script(source, text_response, session_ids) ==
    IF text_response.variant = "Text"
    THEN LET found == captures_iter(text_response.arg)
         IN  [i \in 1..Len(found) |->
                Message(node_id, 5, session_ids[i],
                        Request(Variant("MediaRequest", "Media", found[i])))]
    ELSE <<>>

\* process_text_response walking medias from its end.
process_text_response_reversed(source, text_response, session_ids) ==
    IF text_response.variant = "Text"
    THEN LET found == captures_iter(text_response.arg)
         IN  [i \in 1..Len(found) |->
                Message(node_id, source, session_ids[i],
                        Request(Variant("MediaRequest", "Media",
                                        found[Len(found) + 1 - i])))]
    ELSE <<>>

\* process_text_response asking again for a text that was not found.
process_text_response_retrying(source, text_response, session_ids) ==
    IF text_response.variant = "Text"
    THEN LET found == captures_iter(text_response.arg)
         IN  [i \in 1..Len(found) |->
                Message(node_id, source, session_ids[i],
                        Request(Variant("MediaRequest", "Media", found[i])))]
    ELSE IF text_response.variant = "NotFound"
    THEN << Message(node_id, source, 0,
                    Request(Variant("TextRequest", "Text", text_response.arg))) >>
    ELSE <<>>

\* process_text_response serving only a source the client has sent a text
\* request to.
process_text_response_correlated(source, text_response, session_ids) ==
    IF /\ text_response.variant = "Text"
       /\ \E j \in 1..Len(logic_to_transmitter) :
              /\ logic_to_transmitter[j].destination = source
              /\ logic_to_transmitter[j].content.value.family = "TextRequest"
    THEN LET found == captures_iter(text_response.arg)
         IN  [i \in 1..Len(found) |->
                Message(node_id, source, session_ids[i],
                        Request(Variant("MediaRequest", "Media", found[i])))]
    ELSE <<>>

\* Client::process_text_response: the messages it sends; session_ids are the
\* values of rng.next_u64(), one for each media.
process_text_response(source, text_response, session_ids) ==
    IF text_response.variant = "Text"
    THEN LET found == medias(text_response.arg)
         IN  [i \in 1..Len(found) |->
                Message(node_id, source, session_ids[i],
                        Request(MediaRequestMedia(found[i])))]
    ELSE <<>>

\* process_media_response dropping the result of open_png_from_bytes.
process_media_response_ignoring(source, media_response, sink_ok) ==
    [sent |-> <<>>, panicked |-> FALSE]

\* Client::process_media_response: sends nothing; Media is handed to
\* open_png_from_bytes, whose failure panics (expect).
process_media_response(source, media_response, sink_ok) ==
    [sent |-> <<>>, panicked |-> media_response.variant = "Media" /\ ~sink_ok]

\* Client::process_chat_response and Client::process_discovery_response: log lines.
process_chat_response(source, chat_response) == <<>>

process_discovery_response(source, server_type) == <<>>

\* Client::process_response
process_response(session_id, source_id, response_type, session_ids, sink_ok) ==
    CASE response_type.family = "TextResponse" ->
            [sent |-> process_text_response(source_id, response_type, session_ids),
             panicked |-> FALSE]
      [] response_type.family = "MediaResponse" ->
            process_media_response(source_id, response_type, sink_ok)
      [] response_type.family = "ChatResponse" ->
            [sent |-> process_chat_response(source_id, response_type), panicked |-> FALSE]
      [] response_type.family = "DiscoveryResponse" ->
            [sent |-> process_discovery_response(source_id, response_type),
             panicked |-> FALSE]

\* ClientLogic::process_message
process_message(message, session_ids, sink_ok) ==
    CASE message.content.type = "Request" ->
            [sent |-> process_request(message.session_id, message.source,
                                      message.content.value),
             panicked |-> FALSE]
      [] message.content.type = "Response" ->
            process_response(message.session_id, message.source,
                             message.content.value, session_ids, sink_ok)
      [] message.content.type = "Error" ->
            [sent |-> process_error(message.session_id, message.source,
                                    message.content.value),
             panicked |-> FALSE]

IsText(message) ==
    /\ message.content.type = "Response"
    /\ message.content.value.family = "TextResponse"
    /\ message.content.value.variant = "Text"

IsMedia(message) ==
    /\ message.content.type = "Response"
    /\ message.content.value.family = "MediaResponse"
    /\ message.content.value.variant = "Media"

\* How many times process_message calls rng.next_u64().
Draws(message) == IF IsText(message) THEN Len(medias(message.content.value.arg)) ELSE 0

\* The results open_png_from_bytes can have (TRUE: Ok): bytes that do not
\* decode fail; an image can still fail to be saved or opened.
SinkResults(message) ==
    IF ~IsMedia(message) THEN {TRUE}
    ELSE IF message.content.value.arg = NotAnImage THEN {FALSE}
    ELSE BOOLEAN

\* --------------------------------------------------------------------- Init
Init ==
    /\ node_id \in ClientIds
    /\ actions \in SeqsUpTo(ScriptActions, MaxScript)
    /\ action_index = 1
    /\ logic_pc = "unspawned"
    /\ logic_command = 0
    /\ listener_to_server_logic = <<>>
    /\ logic_to_transmitter = <<>>
    /\ last_received = <<>>
    /\ sup_pc = "idle"
    /\ command = 0
    /\ command_tx_dropped = FALSE
    /\ quit_sends = <<>>
    /\ listener_pc = "unspawned"
    /\ listener_command = 0
    /\ transmitter_pc = "unspawned"
    /\ transmitter_command = 0
    /\ panic_hook = FALSE
    /\ delivered = 0
    /\ quits_requested = 0
    /\ disconnected = {}

\* ------------------------------------------------------ Client::run (logic)
\* The inbox arm of an unbiased select!: taken whenever a message is ready,
\* a pending command or not.
ReceiveMessage_unbiased(next_pc) ==
    /\ listener_to_server_logic # <<>>
    /\ LET message == Head(listener_to_server_logic)
       IN  \E session_ids \in [1..Draws(message) -> RngValues],
              sink_ok \in SinkResults(message) :
               \E result \in {process_message(message, session_ids, sink_ok)} :
                   /\ logic_to_transmitter' = logic_to_transmitter \o result.sent
                   /\ logic_pc' = IF result.panicked THEN "panicked" ELSE next_pc
                   /\ last_received' = <<message>>
    /\ listener_to_server_logic' = Tail(listener_to_server_logic)
    /\ UNCHANGED <<node_id, actions, disconnected, action_index, logic_command,
                   sup_vars, command_tx_dropped, listener_pc, listener_command,
                   transmitter_pc, transmitter_command, delivered, quits_requested>>

\* The arm recv(listener_to_server_logic_rx) of select_biased!: taken when
\* the command channel is not ready (no command, not disconnected);
\* process_message(&message), then next_pc. A send on a disconnected outbox
\* panics with nothing sent.
ReceiveMessage(next_pc) ==
    /\ logic_command = 0
    /\ "command_rx" \notin disconnected
    /\ listener_to_server_logic # <<>>
    /\ LET message == Head(listener_to_server_logic)
       IN  \E session_ids \in [1..Draws(message) -> RngValues],
              sink_ok \in SinkResults(message) :
               \E result \in {process_message(message, session_ids, sink_ok)} :
                   LET send_failed ==
                           /\ result.sent # <<>>
                           /\ "client_logic_to_transmitter_tx" \in disconnected
                   IN  /\ logic_to_transmitter' =
                              IF send_failed THEN logic_to_transmitter
                              ELSE logic_to_transmitter \o result.sent
                       /\ logic_pc' = IF result.panicked \/ send_failed
                                      THEN "panicked" ELSE next_pc
                       /\ last_received' = <<message>>
    /\ listener_to_server_logic' = Tail(listener_to_server_logic)
    /\ UNCHANGED <<node_id, actions, disconnected, action_index, logic_command, sup_vars,
                   command_tx_dropped, listener_pc, listener_command,
                   transmitter_pc, transmitter_command, delivered, quits_requested>>

\* The for loop walking the script from its end.
ScriptedSend_reversed ==
    /\ logic_pc = "for"
    /\ action_index <= Len(actions)
    /\ "client_logic_to_transmitter_tx" \notin disconnected
    /\ \E session_id \in RngValues :
           LET action == actions[Len(actions) + 1 - action_index]
           IN  logic_to_transmitter' =
                   Append(logic_to_transmitter,
                          Message(node_id, action[1], session_id, Request(action[2])))
    /\ logic_pc' = "select_a"
    /\ UNCHANGED <<node_id, actions, disconnected, action_index, logic_command,
                   listener_to_server_logic, last_received, sup_vars,
                   command_tx_dropped, listener_pc, listener_command,
                   transmitter_pc, transmitter_command, delivered, quits_requested>>

\* Top of the for loop with an action left: build the request and send it.
ScriptedSend ==
    /\ logic_pc = "for"
    /\ action_index <= Len(actions)
    /\ "client_logic_to_transmitter_tx" \notin disconnected
    /\ \E session_id \in RngValues :
           logic_to_transmitter' =
               Append(logic_to_transmitter,
                      Message(node_id, actions[action_index][1], session_id,
                              Request(actions[action_index][2])))
    /\ logic_pc' = "select_a"
    /\ UNCHANGED <<node_id, actions, disconnected, action_index, logic_command,
                   listener_to_server_logic, last_received, sup_vars,
                   command_tx_dropped, listener_pc, listener_command,
                   transmitter_pc, transmitter_command, delivered, quits_requested>>

\* The for loop is exhausted: fall into the loop of lines 79-99.
ScriptExhausted ==
    /\ logic_pc = "for"
    /\ action_index > Len(actions)
    /\ logic_pc' = "select_b"
    /\ UNCHANGED <<node_id, actions, disconnected, action_index, logic_command,
                   listener_to_server_logic, logic_to_transmitter, last_received,
                   sup_vars, command_tx_dropped, listener_pc, listener_command,
                   transmitter_pc, transmitter_command, delivered, quits_requested>>

\* Quit in the select of the for loop: break leaves the for loop, and
\* control continues with the loop of lines 79-99.
ScriptedQuit ==
    /\ logic_pc = "select_a"
    /\ logic_command > 0
    /\ logic_command' = logic_command - 1
    /\ logic_pc' = "select_b"
    /\ UNCHANGED <<node_id, actions, disconnected, action_index, listener_to_server_logic,
                   logic_to_transmitter, last_received, sup_vars,
                   command_tx_dropped, listener_pc, listener_command,
                   transmitter_pc, transmitter_command, delivered, quits_requested>>

\* The inbox arm of the scripted phase as a drain: it selects again while
\* messages are left.
ScriptedReceive_drain ==
    /\ logic_pc = "select_a"
    /\ ReceiveMessage(IF Len(listener_to_server_logic) > 1 THEN "select_a" ELSE "sleep")

\* The inbox arm of the select of the for loop; thread::sleep follows.
ScriptedReceive ==
    /\ logic_pc = "select_a"
    /\ ReceiveMessage("sleep")

\* thread::sleep(self.sleep_time) ends; the for loop advances.
Sleep ==
    /\ logic_pc = "sleep"
    /\ action_index' = action_index + 1
    /\ logic_pc' = "for"
    /\ UNCHANGED <<node_id, actions, disconnected, logic_command, listener_to_server_logic,
                   logic_to_transmitter, last_received, sup_vars,
                   command_tx_dropped, listener_pc, listener_command,
                   transmitter_pc, transmitter_command, delivered, quits_requested>>

\* The Quit arm of the final loop without its break: the loop selects again.
ReactiveQuit_continue ==
    /\ logic_pc = "select_b"
    /\ logic_command > 0
    /\ logic_command' = logic_command - 1
    /\ logic_pc' = "select_b"
    /\ UNCHANGED <<node_id, actions, disconnected, action_index, listener_to_server_logic,
                   logic_to_transmitter, last_received, sup_vars,
                   command_tx_dropped, listener_pc, listener_command,
                   transmitter_pc, transmitter_command, delivered, quits_requested>>

\* Quit in the select of the final loop: break, run returns.
ReactiveQuit ==
    /\ logic_pc = "select_b"
    /\ logic_command > 0
    /\ logic_command' = logic_command - 1
    /\ logic_pc' = "terminated"
    /\ UNCHANGED <<node_id, actions, disconnected, action_index, listener_to_server_logic,
                   logic_to_transmitter, last_received, sup_vars,
                   command_tx_dropped, listener_pc, listener_command,
                   transmitter_pc, transmitter_command, delivered, quits_requested>>

ReactiveReceive ==
    /\ logic_pc = "select_b"
    /\ ReceiveMessage("select_b")

\* ------------------------------------------- Client::run on dead channels
\* The scripted send on a disconnected outbox: unwrap_or_else panics.
ScriptedSendError ==
    /\ logic_pc = "for"
    /\ action_index <= Len(actions)
    /\ "client_logic_to_transmitter_tx" \in disconnected
    /\ logic_pc' = "panicked"
    /\ UNCHANGED <<node_id, actions, disconnected, action_index, logic_command,
                   listener_to_server_logic, logic_to_transmitter, last_received,
                   sup_vars, command_tx_dropped, listener_pc, listener_command,
                   transmitter_pc, transmitter_command, delivered, quits_requested>>

\* The command arm of either select_biased! with Err: the channel is empty
\* and disconnected; the arm falls through its if let to panic!.
CommandError ==
    /\ logic_pc \in {"select_a", "select_b"}
    /\ logic_command = 0
    /\ "command_rx" \in disconnected
    /\ logic_pc' = "panicked"
    /\ UNCHANGED <<node_id, actions, disconnected, action_index, logic_command,
                   listener_to_server_logic, logic_to_transmitter, last_received,
                   sup_vars, command_tx_dropped, listener_pc, listener_command,
                   transmitter_pc, transmitter_command, delivered, quits_requested>>

\* The inbox arm of either select_biased! with Err: the command channel is
\* not ready, the inbox is empty and disconnected; the else branch panics.
InboxError ==
    /\ logic_pc \in {"select_a", "select_b"}
    /\ logic_command = 0
    /\ "command_rx" \notin disconnected
    /\ listener_to_server_logic = <<>>
    /\ "listener_to_client_logic_rx" \in disconnected
    /\ logic_pc' = "panicked"
    /\ UNCHANGED <<node_id, actions, disconnected, action_index, logic_command,
                   listener_to_server_logic, logic_to_transmitter, last_received,
                   sup_vars, command_tx_dropped, listener_pc, listener_command,
                   transmitter_pc, transmitter_command, delivered, quits_requested>>

\* The channel endpoints Client::new is given.
ClientEndpoints ==
    {"command_rx", "listener_to_client_logic_rx", "client_logic_to_transmitter_tx"}

\* The holder of the other side of one of the channels drops it: the last
\* sender of the command channel or of the inbox, the receiver of the outbox.
Disconnect ==
    /\ \E endpoint \in ClientEndpoints \ disconnected :
           disconnected' = disconnected \cup {endpoint}
    /\ UNCHANGED <<node_id, actions, logic_vars, sup_vars, command_tx_dropped,
                   listener_pc, listener_command, transmitter_pc,
                   transmitter_command, delivered, quits_requested>>

\* --------------------------------------------- DibClient / DibServerTrait
\* The inherent method DibClient::run, which a method call client.run()
\* resolves to: it installs the panic hook and returns.
DibClientRun ==
    /\ sup_pc = "idle"
    /\ panic_hook' = TRUE
    /\ sup_pc' = "returned"
    /\ UNCHANGED <<node_id, actions, disconnected, logic_vars, command, command_tx_dropped,
                   quit_sends, listener_pc, listener_command, transmitter_pc,
                   transmitter_command, delivered, quits_requested>>

\* DibServerTrait::run up to the command loop: the panic hook and the three
\* thread::Builder::spawn calls.
DibServerTraitRun ==
    /\ sup_pc = "idle"
    /\ panic_hook' = TRUE
    /\ listener_pc' = "running"
    /\ transmitter_pc' = "running"
    /\ logic_pc' = "for"
    /\ sup_pc' = "command_loop"
    /\ UNCHANGED <<node_id, actions, disconnected, action_index, logic_command,
                   listener_to_server_logic, logic_to_transmitter, last_received,
                   command, command_tx_dropped, quit_sends, listener_command,
                   transmitter_command, delivered, quits_requested>>

\* self.get_command_rx().recv() returns Ok(Command::Quit).
ReceiveQuit ==
    /\ sup_pc = "command_loop"
    /\ command > 0
    /\ command' = command - 1
    /\ sup_pc' = "quit"
    /\ UNCHANGED <<node_id, actions, disconnected, logic_vars, command_tx_dropped, quit_sends,
                   listener_pc, listener_command, transmitter_pc,
                   transmitter_command, panic_hook, delivered, quits_requested>>

\* recv() returning Err taken as a Quit: the supervisor starts the fan-out.
ReceiveError_as_quit ==
    /\ sup_pc = "command_loop"
    /\ command = 0
    /\ command_tx_dropped
    /\ sup_pc' = "quit"
    /\ UNCHANGED <<node_id, actions, disconnected, logic_vars, command,
                   command_tx_dropped, quit_sends, listener_pc, listener_command,
                   transmitter_pc, transmitter_command, panic_hook, delivered,
                   quits_requested>>

\* recv() returns Err: the channel is empty and every sender is dropped.
ReceiveError ==
    /\ sup_pc = "command_loop"
    /\ command = 0
    /\ command_tx_dropped
    /\ sup_pc' = "panicked"
    /\ UNCHANGED <<node_id, actions, disconnected, logic_vars, command, command_tx_dropped,
                   quit_sends, listener_pc, listener_command, transmitter_pc,
                   transmitter_command, panic_hook, delivered, quits_requested>>

\* The sends with the logic before the listener.
QuitOrder_logic_first == <<"logic", "listener", "transmitter">>

\* The order of the three sends of the Command::Quit arm.
QuitOrder == <<"listener", "logic", "transmitter">>

\* The fan-out with a send to the logic that fails: the supervisor panics
\* after the send to the listener.
SendQuit_failing ==
    /\ sup_pc = "quit"
    /\ Len(quit_sends) < Len(QuitOrder)
    /\ LET worker == QuitOrder[Len(quit_sends) + 1]
       IN  /\ quit_sends' = IF worker = "logic" THEN quit_sends
                            ELSE Append(quit_sends, worker)
           /\ listener_command' = listener_command + (IF worker = "listener" THEN 1 ELSE 0)
           /\ logic_command' = logic_command
           /\ transmitter_command' =
                  transmitter_command + (IF worker = "transmitter" THEN 1 ELSE 0)
           /\ sup_pc' = IF worker = "logic" THEN "panicked"
                        ELSE IF Len(quit_sends') = Len(QuitOrder) THEN "join_listener"
                        ELSE "quit"
    /\ UNCHANGED <<node_id, actions, disconnected, action_index, logic_pc,
                   listener_to_server_logic, logic_to_transmitter, last_received,
                   command, command_tx_dropped, listener_pc, transmitter_pc,
                   panic_hook, delivered, quits_requested>>

\* The next send of the Command::Quit arm; after the last one, break
\* 'command_loop.
SendQuit ==
    /\ sup_pc = "quit"
    /\ Len(quit_sends) < Len(QuitOrder)
    /\ LET worker == QuitOrder[Len(quit_sends) + 1]
       IN  /\ quit_sends' = Append(quit_sends, worker)
           /\ listener_command' = listener_command + (IF worker = "listener" THEN 1 ELSE 0)
           /\ logic_command' = logic_command + (IF worker = "logic" THEN 1 ELSE 0)
           /\ transmitter_command' =
                  transmitter_command + (IF worker = "transmitter" THEN 1 ELSE 0)
    /\ sup_pc' = IF Len(quit_sends') = Len(QuitOrder) THEN "join_listener" ELSE "quit"
    /\ UNCHANGED <<node_id, actions, disconnected, action_index, logic_pc,
                   listener_to_server_logic, logic_to_transmitter, last_received,
                   command, command_tx_dropped, listener_pc, transmitter_pc,
                   panic_hook, delivered, quits_requested>>

Finished(pc) == pc \in {"returned", "terminated", "panicked"}

\* listener_handle.join()
JoinListener ==
    /\ sup_pc = "join_listener"
    /\ Finished(listener_pc)
    /\ sup_pc' = "join_logic"
    /\ UNCHANGED <<node_id, actions, disconnected, logic_vars, command, command_tx_dropped,
                   quit_sends, listener_pc, listener_command, transmitter_pc,
                   transmitter_command, panic_hook, delivered, quits_requested>>

\* client_logic_handle.join()
JoinLogic ==
    /\ sup_pc = "join_logic"
    /\ Finished(logic_pc)
    /\ sup_pc' = "join_transmitter"
    /\ UNCHANGED <<node_id, actions, disconnected, logic_vars, command, command_tx_dropped,
                   quit_sends, listener_pc, listener_command, transmitter_pc,
                   transmitter_command, panic_hook, delivered, quits_requested>>

\* transmitter_handle.join(), then run returns.
JoinTransmitter ==
    /\ sup_pc = "join_transmitter"
    /\ Finished(transmitter_pc)
    /\ sup_pc' = "returned"
    /\ UNCHANGED <<node_id, actions, disconnected, logic_vars, command, command_tx_dropped,
                   quit_sends, listener_pc, listener_command, transmitter_pc,
                   transmitter_command, panic_hook, delivered, quits_requested>>

\* ------------------------------------------------- the external workers
\* listener.run(): pushes a reassembled message on the inbox.
ListenerDeliver ==
    /\ listener_pc = "running"
    /\ delivered < MaxInbound
    /\ \E message \in Traffic :
           listener_to_server_logic' = Append(listener_to_server_logic, message)
    /\ delivered' = delivered + 1
    /\ UNCHANGED <<node_id, actions, disconnected, action_index, logic_pc, logic_command,
                   logic_to_transmitter, last_received, sup_vars,
                   command_tx_dropped, listener_pc, listener_command,
                   transmitter_pc, transmitter_command, quits_requested>>

\* listener.run() returns after its Quit.
ListenerQuit ==
    /\ listener_pc = "running"
    /\ listener_command > 0
    /\ listener_command' = listener_command - 1
    /\ listener_pc' = "returned"
    /\ UNCHANGED <<node_id, actions, disconnected, logic_vars, sup_vars, command_tx_dropped,
                   transmitter_pc, transmitter_command, delivered, quits_requested>>

\* transmitter.run() returns after its Quit.
TransmitterQuit ==
    /\ transmitter_pc = "running"
    /\ transmitter_command > 0
    /\ transmitter_command' = transmitter_command - 1
    /\ transmitter_pc' = "returned"
    /\ UNCHANGED <<node_id, actions, disconnected, logic_vars, sup_vars, command_tx_dropped,
                   listener_pc, listener_command, delivered, quits_requested>>

\* ------------------------------------------------------------ the caller
\* The holder of the Sender<Command> returned by new_dib_client sends Quit.
CallerQuit ==
    /\ ~command_tx_dropped
    /\ quits_requested < MaxQuits
    /\ command' = command + 1
    /\ quits_requested' = quits_requested + 1
    /\ UNCHANGED <<node_id, actions, disconnected, logic_vars, sup_pc, quit_sends, panic_hook,
                   command_tx_dropped, listener_pc, listener_command,
                   transmitter_pc, transmitter_command, delivered>>

\* The holder drops the Sender<Command>.
CallerDrop ==
    /\ ~command_tx_dropped
    /\ command_tx_dropped' = TRUE
    /\ UNCHANGED <<node_id, actions, disconnected, logic_vars, sup_vars, listener_pc,
                   listener_command, transmitter_pc, transmitter_command,
                   delivered, quits_requested>>

\* --------------------------------------------------------------------- Next
Next ==
    \/ ScriptedSend
    \/ ScriptExhausted
    \/ ScriptedQuit
    \/ ScriptedReceive
    \/ Sleep
    \/ ReactiveQuit
    \/ ReactiveReceive
    \/ DibClientRun
    \/ DibServerTraitRun
    \/ ReceiveQuit
    \/ ReceiveError
    \/ SendQuit
    \/ JoinListener
    \/ JoinLogic
    \/ JoinTransmitter
    \/ ListenerDeliver
    \/ ListenerQuit
    \/ TransmitterQuit
    \/ CallerQuit
    \/ CallerDrop

Spec == Init /\ [][Next]_vars

\* The steps of the logic thread that receive no message.
LogicControl ==
    \/ ScriptedSend
    \/ ScriptExhausted
    \/ ScriptedQuit
    \/ Sleep
    \/ ReactiveQuit

\* The steps ScriptedReceive and ReactiveReceive, told by their guard and
\* their effect on the inbox: the only steps that take the head of the inbox.
TakesMessage ==
    /\ logic_pc \in {"select_a", "select_b"}
    /\ logic_command = 0
    /\ "command_rx" \notin disconnected
    /\ listener_to_server_logic # <<>>
    /\ listener_to_server_logic' = Tail(listener_to_server_logic)

\* The steps of the supervisor thread.
Supervisor ==
    \/ ReceiveQuit
    \/ ReceiveError
    \/ SendQuit
    \/ JoinListener
    \/ JoinLogic
    \/ JoinTransmitter

\* Every thread that can take a step eventually takes one, and the listener
\* and the transmitter return after their Quit; the caller and the arrival
\* of messages are not forced.
Fairness ==
    /\ WF_vars(LogicControl)
    /\ WF_listener_to_server_logic(TakesMessage)
    /\ WF_vars(Supervisor)
    /\ WF_vars(ListenerQuit)
    /\ WF_vars(TransmitterQuit)

FairSpec == Spec /\ Fairness

\* ------------------------------------------- the logic thread on one message
\* Client::run started by DibServerTrait::run, with one message of any kind
\* already pushed on the inbox by the listener, and no Quit.
LogicInit ==
    /\ node_id \in ClientIds
    /\ actions \in SeqsUpTo(ScriptActions, MaxScript)
    /\ action_index = 1
    /\ logic_pc = "for"
    /\ logic_command = 0
    /\ listener_to_server_logic \in { <<message>> : message \in InboundMessages }
    /\ logic_to_transmitter = <<>>
    /\ last_received = <<>>
    /\ sup_pc = "command_loop"
    /\ command = 0
    /\ command_tx_dropped = FALSE
    /\ quit_sends = <<>>
    /\ listener_pc = "running"
    /\ listener_command = 0
    /\ transmitter_pc = "running"
    /\ transmitter_command = 0
    /\ panic_hook = TRUE
    /\ delivered = 1
    /\ quits_requested = 0
    /\ disconnected = {}

LogicNext ==
    \/ ScriptedSend
    \/ ScriptExhausted
    \/ ScriptedReceive
    \/ Sleep
    \/ ReactiveReceive

LogicSpec == LogicInit /\ [][LogicNext]_vars

\* ---------------------------------------- the logic thread on a backlog
\* Client::run started by DibServerTrait::run when the listener has already
\* pushed MaxBacklog messages of Traffic on the inbox; the supervisor either
\* waits in its command loop or has received a Quit and sent it to the
\* listener and to the logic.
BacklogInit ==
    /\ node_id \in ClientIds
    /\ actions \in SeqsUpTo(ScriptActions, MaxScript)
    /\ action_index = 1
    /\ logic_pc = "for"
    /\ logic_command \in {0, 1}
    /\ listener_to_server_logic \in [1..MaxBacklog -> Traffic]
    /\ logic_to_transmitter = <<>>
    /\ last_received = <<>>
    /\ sup_pc = IF logic_command = 1 THEN "quit" ELSE "command_loop"
    /\ command = 0
    /\ command_tx_dropped = FALSE
    /\ quit_sends = IF logic_command = 1 THEN <<"listener", "logic">> ELSE <<>>
    /\ listener_pc = "running"
    /\ listener_command = logic_command
    /\ transmitter_pc = "running"
    /\ transmitter_command = 0
    /\ panic_hook = TRUE
    /\ delivered = MaxBacklog
    /\ quits_requested = logic_command
    /\ disconnected = {}

BacklogNext ==
    \/ ScriptedSend
    \/ ScriptExhausted
    \/ ScriptedQuit
    \/ ScriptedReceive
    \/ Sleep
    \/ ReactiveQuit
    \/ ReactiveReceive

BacklogSpec == BacklogInit /\ [][BacklogNext]_vars

\* ------------------------------------- the logic thread on failing channels
\* Client::run as above, with the peers of its three channels free to drop
\* their endpoints at any time.
FailureNext ==
    \/ ScriptedSend
    \/ ScriptExhausted
    \/ ScriptedReceive
    \/ Sleep
    \/ ReactiveReceive
    \/ ScriptedSendError
    \/ CommandError
    \/ InboxError
    \/ Disconnect

FailureSpec == LogicInit /\ [][FailureNext]_vars

\* ------------------------------------------------------------------ claims
\* A step in which the logic thread receives the message at the head of the inbox.
Receives == Len(listener_to_server_logic') < Len(listener_to_server_logic)

\* The messages a step adds to the outbox.
Added ==
    SubSeq(logic_to_transmitter', Len(logic_to_transmitter) + 1, Len(logic_to_transmitter'))

\* The supervisor has received a Quit.
QuitReceived == quits_requested > command

Spawned ==
    /\ listener_pc # "unspawned"
    /\ transmitter_pc # "unspawned"
    /\ logic_pc # "unspawned"

\* C1: whenever the logic thread consumes a Quit, in the scripted phase or in
\* the reactive phase, it is terminated right after: run returns, no further
\* message is dispatched and no second Quit is needed.
C1_QuitTerminates ==
    [][logic_command' < logic_command => logic_pc' = "terminated"]_vars

\* C2: once a Quit is on the supervisor command queue of a running node (the
\* workers spawned, the supervisor in its command loop), the supervisor
\* eventually joins the three workers and returns.
C2_ShutdownCompletes ==
    (sup_pc = "command_loop" /\ command > 0) ~> (sup_pc = "returned")

\* The outbox holds exactly the scripted requests, in input order.
ScriptSent ==
    /\ Len(logic_to_transmitter) = Len(actions)
    /\ \A i \in 1..Len(actions) :
           /\ logic_to_transmitter[i].destination = actions[i][1]
           /\ logic_to_transmitter[i].content = [type |-> "Request", value |-> actions[i][2]]

\* C3: a started logic thread of a node that stays up, to which no message
\* and no Quit ever comes, eventually has placed exactly the k scripted
\* requests on the outbox, in input order.
C3_ScriptCompletes ==
    (logic_pc = "for" /\ action_index = 1)
        ~> (delivered > 0 \/ quits_requested > 0 \/ sup_pc = "panicked" \/ ScriptSent)

\* C4: dispatching an inbound Request(r) appends exactly one message to the
\* outbox: Error(Unsupported(r)) with the session id of the request, to the
\* source of the request, from the client's own node id.
C4_RequestAnswered ==
    [][(Receives /\ Head(listener_to_server_logic).content.type = "Request") =>
        LET request == Head(listener_to_server_logic)
        IN  Added = << [source |-> node_id,
                        destination |-> request.source,
                        session_id |-> request.session_id,
                        content |-> [type |-> "Error",
                                     value |-> [family |-> "Unsupported",
                                                variant |-> request.content.value.family,
                                                arg |-> request.content.value]]] >>]_vars

\* C4 witness: a request from node 7 was dispatched in the scripted phase and
\* the reply to node 7 is the last message of the outbox.
C4_Witness ==
    /\ logic_pc = "sleep"
    /\ last_received # <<>>
    /\ last_received[1].content.type = "Request"
    /\ last_received[1].source = 7
    /\ Len(logic_to_transmitter) = 2
    /\ logic_to_transmitter[2].content.type = "Error"
    /\ logic_to_transmitter[2].destination = 7
    /\ logic_to_transmitter[2].session_id = 42

\* C5: the supervisor sends Quit to the listener, then the logic, then the
\* transmitter, each once; it joins only after the three sends; no worker is
\* sent Quit before the supervisor has received Quit.
C5_QuitFanOut ==
    /\ \E n \in 0..3 : quit_sends = SubSeq(<<"listener", "logic", "transmitter">>, 1, n)
    /\ quit_sends # <<>> => QuitReceived
    /\ sup_pc \in {"join_listener", "join_logic", "join_transmitter"}
           => quit_sends = <<"listener", "logic", "transmitter">>
    /\ (sup_pc = "returned" /\ Spawned) => quit_sends = <<"listener", "logic", "transmitter">>
    /\ listener_command + (IF listener_pc = "returned" THEN 1 ELSE 0)
           = (IF Len(quit_sends) >= 1 THEN 1 ELSE 0)
    /\ logic_command <= (IF Len(quit_sends) >= 2 THEN 1 ELSE 0)
    /\ transmitter_command + (IF transmitter_pc = "returned" THEN 1 ELSE 0)
           = (IF Len(quit_sends) >= 3 THEN 1 ELSE 0)

\* C5 witness: the supervisor has sent the three Quits and joined the workers.
C5_Witness ==
    /\ sup_pc = "returned"
    /\ Spawned
    /\ quit_sends = <<"listener", "logic", "transmitter">>

\* C6: run on the node assembly does not return unless it has spawned the
\* three workers and received a Quit.
C6_RunSupervises ==
    sup_pc = "returned" => (Spawned /\ QuitReceived)

\* C7: every message on the outbox has the client's node id as its source.
C7_SourceIsSelf ==
    \A i \in 1..Len(logic_to_transmitter) : logic_to_transmitter[i].source = node_id

\* C7 witness: the outbox holds a scripted request followed by the two media
\* requests of a text response.
C7_Witness ==
    /\ Len(logic_to_transmitter) = 3
    /\ logic_to_transmitter[1].content.value.family = "TextRequest"
    /\ logic_to_transmitter[2].content.value.family = "MediaRequest"
    /\ logic_to_transmitter[3].content.value.family = "MediaRequest"
    /\ \A i \in 1..3 : logic_to_transmitter[i].source = node_id

\* C8: every follow-up request that the dispatch of a response R adds to the
\* outbox is a media request whose destination is the source of R.
C8_FollowUpsToSource ==
    [][(Receives /\ Head(listener_to_server_logic).content.type = "Response") =>
        \A i \in 1..Len(Added) :
            /\ Added[i].destination = Head(listener_to_server_logic).source
            /\ Added[i].content.type = "Request"
            /\ Added[i].content.value.family = "MediaRequest"]_vars

\* C8 witness: after a scripted request to node 5, a text from node 7 has
\* been dispatched, and the media request that follows goes to node 7.
C8_Witness ==
    /\ last_received # <<>>
    /\ last_received[1].content.type = "Response"
    /\ last_received[1].source = 7
    /\ Len(logic_to_transmitter) >= 2
    /\ logic_to_transmitter[1].destination = 5
    /\ logic_to_transmitter[2].content.value.family = "MediaRequest"
    /\ logic_to_transmitter[2].destination = 7

\* The messages C9 is about: an Error, a NotFound, a list, a chat response,
\* a discovery response.
OnlyLogged(message) ==
    \/ message.content.type = "Error"
    \/ /\ message.content.type = "Response"
       /\ \/ message.content.value.variant \in {"NotFound", "TextList", "MediaList"}
          \/ message.content.value.family \in {"ChatResponse", "DiscoveryResponse"}

\* C9: dispatching an Error, a NotFound or an informational response leaves
\* the outbox as it is and the thread in its phase: after the select of the
\* scripted phase it sleeps, in the reactive phase it selects again.
C9_LoggedOnly ==
    [][(Receives /\ OnlyLogged(Head(listener_to_server_logic))) =>
        /\ logic_to_transmitter' = logic_to_transmitter
        /\ logic_pc' = (IF logic_pc = "select_a" THEN "sleep" ELSE "select_b")]_vars

\* C9 witness: an Error was dispatched after the first scripted send; the
\* outbox holds that request alone and the thread sleeps.
C9_Witness ==
    /\ last_received # <<>>
    /\ last_received[1].content.type = "Error"
    /\ logic_pc = "sleep"
    /\ Len(logic_to_transmitter) = 1
    /\ logic_to_transmitter[1].content.type = "Request"

\* C10: dispatching a Text whose body is a sequence of valid citations adds
\* one MediaRequest::Media(name.ext) per citation, in the order of the body,
\* repeated citations included.
C10_OnePerCitation ==
    [][(/\ Receives
        /\ Head(listener_to_server_logic).content.type = "Response"
        /\ Head(listener_to_server_logic).content.value.family = "TextResponse"
        /\ Head(listener_to_server_logic).content.value.variant = "Text") =>
        \A cites \in SeqsUpTo(ValidCitations, MaxPieces) :
            Render(cites) = Head(listener_to_server_logic).content.value.arg =>
                /\ Len(Added) = Len(cites)
                /\ \A i \in 1..Len(cites) :
                       Added[i].content =
                           [type |-> "Request",
                            value |-> [family |-> "MediaRequest", variant |-> "Media",
                                       arg |-> cites[i].name]]]_vars

\* C10 witness: a body citing a.png twice was dispatched and the outbox ends
\* with two requests for a.png.
C10_Witness ==
    /\ last_received # <<>>
    /\ last_received[1].content.type = "Response"
    /\ last_received[1].content.value.arg
           = Cite(<<" ">>, NamePng, <<" ">>) \o Cite(<<" ">>, NamePng, <<" ">>)
    /\ Len(logic_to_transmitter) >= 2
    /\ LET n == Len(logic_to_transmitter)
       IN  /\ logic_to_transmitter[n].content.value.arg = NamePng
           /\ logic_to_transmitter[n - 1].content.value.arg = NamePng
           /\ logic_to_transmitter[n].content.value.family = "MediaRequest"
           /\ logic_to_transmitter[n - 1].content.value.family = "MediaRequest"

\* A step in which the logic thread receives a TextResponse::Text.
TextArrives == Receives /\ IsText(Head(listener_to_server_logic))

\* The names the media requests added by a step ask for, in order.
AddedNames == [i \in 1..Len(Added) |-> Added[i].content.value.arg]

\* How many times name occurs in the sequence names.
Occurrences(name, names) == Cardinality({ i \in 1..Len(names) : names[i] = name })

\* C11 as written: dispatching a Text adds exactly one media request for each
\* distinct name the body cites, however many times the body cites it.
C11_OnePerDistinctName ==
    [][TextArrives =>
        \A pieces \in SeqsUpTo(Pieces, MaxPieces) :
            Render(pieces) = Head(listener_to_server_logic).content.value.arg =>
                \A cited \in ValidCitations :
                    Occurrences(cited.name, AddedNames) =
                        (IF \E i \in 1..Len(pieces) : pieces[i] = cited THEN 1 ELSE 0)]_vars

\* C11, amended: dispatching a Text adds one media request per citation, not
\* per distinct name: a body that cites the same name n times yields n
\* requests for that name.
C11_OnePerOccurrence ==
    [][TextArrives =>
        \A pieces \in SeqsUpTo(Pieces, MaxPieces) :
            Render(pieces) = Head(listener_to_server_logic).content.value.arg =>
                \A cited \in ValidCitations :
                    Occurrences(cited.name, AddedNames) =
                        Occurrences(cited, pieces)]_vars

\* C11 witness: a body citing b.jpeg twice was dispatched in the reactive
\* phase of a client with an empty script; the outbox holds two requests
\* for b.jpeg and nothing else.
C11_Witness ==
    /\ actions = <<>>
    /\ last_received # <<>>
    /\ IsText(last_received[1])
    /\ last_received[1].content.value.arg
           = Cite(<<>>, NameJpeg, <<>>) \o Cite(<<>>, NameJpeg, <<>>)
    /\ Len(logic_to_transmitter) = 2
    /\ logic_to_transmitter[1].content = Request(MediaRequestMedia(NameJpeg))
    /\ logic_to_transmitter[2].content = Request(MediaRequestMedia(NameJpeg))

\* The name ends in ".png", ".jpg" or ".jpeg".
EndsInMediaExtension(name) ==
    \/ /\ Len(name) > 4
       /\ SubSeq(name, Len(name) - 3, Len(name))
              \in { <<".", "p", "n", "g">>, <<".", "j", "p", "g">> }
    \/ /\ Len(name) > 5
       /\ SubSeq(name, Len(name) - 4, Len(name)) = <<".", "j", "p", "e", "g">>

\* C12: dispatching a Text adds requests only for names ending in .png, .jpg
\* or .jpeg: a body without such a citation adds nothing, and a citation
\* with another extension (x.gif) is skipped while the valid citations of
\* the same body are still requested.
C12_MediaExtensionsOnly ==
    [][TextArrives =>
        /\ \A i \in 1..Len(Added) :
               /\ Added[i].content.type = "Request"
               /\ Added[i].content.value.family = "MediaRequest"
               /\ Added[i].content.value.variant = "Media"
               /\ EndsInMediaExtension(AddedNames[i])
        /\ \A pieces \in SeqsUpTo(Pieces, MaxPieces) :
               Render(pieces) = Head(listener_to_server_logic).content.value.arg =>
                   Len(Added) = Cardinality({ i \in 1..Len(pieces) :
                                                 pieces[i] \in ValidCitations })]_vars

\* C12 witness: the body "{{ x.gif }}{{ a.png }}" was dispatched by a client
\* with an empty script, and the outbox holds one request, for a.png.
C12_Witness ==
    /\ actions = <<>>
    /\ last_received # <<>>
    /\ IsText(last_received[1])
    /\ last_received[1].content.value.arg
           = Cite(<<" ">>, NameGif, <<" ">>) \o Cite(<<" ">>, NamePng, <<" ">>)
    /\ Len(logic_to_transmitter) = 1
    /\ logic_to_transmitter[1].content = Request(MediaRequestMedia(NamePng))

\* C13: a logic thread with an empty script never waits in the select of the
\* scripted phase: its first step enters the reactive phase with nothing
\* sent; and a Quit it consumes terminates it, with an empty outbox when no
\* inbound message was dispatched before.
C13_EmptyScript ==
    /\ [](actions = <<>> =>
            /\ logic_pc \notin {"select_a", "sleep"}
            /\ last_received = <<>> => logic_to_transmitter = <<>>)
    /\ [][actions = <<>> =>
            /\ (logic_pc = "for" /\ logic_pc' # "for") =>
                   (logic_pc' = "select_b" /\ logic_to_transmitter' = <<>>)
            /\ logic_command' < logic_command =>
                   /\ logic_pc' = "terminated"
                   /\ last_received = <<>> => logic_to_transmitter' = <<>>]_vars

\* C13 witness: the thread of a client with an empty script has terminated
\* on a Quit, no message was dispatched and the outbox is empty.
C13_Witness ==
    /\ actions = <<>>
    /\ logic_pc = "terminated"
    /\ logic_command = 0
    /\ last_received = <<>>
    /\ logic_to_transmitter = <<>>

\* The logic thread is past the for loop of the scripted phase.
PastScript == logic_pc \in {"select_b", "terminated", "panicked"}

\* Once past the for loop, the thread never comes back to it: no scripted
\* request is sent any more.
NoScriptedSendAfter ==
    [][PastScript => (PastScript' /\ action_index' = action_index)]_vars

\* C14: a Quit consumed in the select that follows the j-th scripted send
\* ends the thread in that same selection: it is terminated right after,
\* with the outbox as it was, and no scripted request is sent afterwards.
C14_QuitStopsScript ==
    /\ [][(logic_pc = "select_a" /\ logic_command' = logic_command - 1) =>
            (logic_pc' = "terminated" /\ logic_to_transmitter' = logic_to_transmitter)]_vars
    /\ NoScriptedSendAfter

\* A step of the logic thread: it moves, or it receives a message.
LogicMoves == logic_pc' # logic_pc \/ Receives

\* The step ends in a panic with nothing sent and nothing received.
PanicsAtOnce ==
    /\ logic_pc' = "panicked"
    /\ logic_to_transmitter' = logic_to_transmitter
    /\ listener_to_server_logic' = listener_to_server_logic

\* The dispatch of the message sends at least one message.
NeedsSend(message) == message.content.type = "Request" \/ Draws(message) > 0

\* C15: every infrastructure failure of the logic thread is fatal. A
\* scripted send on a disconnected outbox, a selection with the command
\* channel empty and disconnected, and a selection with the inbox empty and
\* disconnected (the command channel still connected) panic with nothing
\* sent; the dispatch of a Media payload that is no image, and a dispatch
\* that has to send on a disconnected outbox, panic; and a panicked thread
\* makes no further step: it selects, sends and receives nothing more.
C15_FailuresAreFatal ==
    [][/\ (/\ logic_pc = "for"
           /\ action_index <= Len(actions)
           /\ "client_logic_to_transmitter_tx" \in disconnected
           /\ LogicMoves) => PanicsAtOnce
       /\ (/\ logic_pc \in {"select_a", "select_b"}
           /\ logic_command = 0
           /\ "command_rx" \in disconnected
           /\ LogicMoves) => PanicsAtOnce
       /\ (/\ logic_pc \in {"select_a", "select_b"}
           /\ logic_command = 0
           /\ listener_to_server_logic = <<>>
           /\ "listener_to_client_logic_rx" \in disconnected
           /\ LogicMoves) => PanicsAtOnce
       /\ (/\ Receives
           /\ IsMedia(Head(listener_to_server_logic))
           /\ Head(listener_to_server_logic).content.value.arg = NotAnImage)
              => (logic_pc' = "panicked" /\ logic_to_transmitter' = logic_to_transmitter)
       /\ (/\ Receives
           /\ NeedsSend(Head(listener_to_server_logic))
           /\ "client_logic_to_transmitter_tx" \in disconnected)
              => (logic_pc' = "panicked" /\ logic_to_transmitter' = logic_to_transmitter)
       /\ logic_pc = "panicked" =>
              /\ logic_pc' = "panicked"
              /\ action_index' = action_index
              /\ logic_to_transmitter' = logic_to_transmitter
              /\ listener_to_server_logic' = listener_to_server_logic]_vars

\* C15 witness: the second scripted send of a script of length 2 found the
\* outbox disconnected: the thread has panicked after one request, having
\* dispatched an error, with the other two channels connected.
C15_Witness ==
    /\ logic_pc = "panicked"
    /\ Len(actions) = 2
    /\ action_index = 2
    /\ disconnected = {"client_logic_to_transmitter_tx"}
    /\ Len(logic_to_transmitter) = 1
    /\ last_received # <<>>
    /\ last_received[1].content.type = "Error"

\* The supervisor has left run: it returned or it panicked.
SupervisorStopped == sup_pc \in {"returned", "panicked"}

BothPending ==
    /\ logic_pc \in {"select_a", "select_b"}
    /\ logic_command > 0
    /\ listener_to_server_logic # <<>>

\* C17: a selection made with a Quit and an inbound message both pending
\* takes the Quit: the step of the logic thread consumes the Quit, and the
\* inbox, the outbox and the log of received messages stay as they are.
C17_CommandFirst ==
    [][BothPending =>
        /\ ~Receives
        /\ last_received' = last_received
        /\ logic_to_transmitter' = logic_to_transmitter
        /\ logic_pc' # logic_pc =>
               /\ logic_command' = logic_command - 1
               /\ listener_to_server_logic' = listener_to_server_logic]_vars

\* C17 witness: the thread has terminated on a Quit taken in the reactive
\* phase of a scripted run while the only message the listener ever pushed
\* is still on the inbox, never dispatched.
C17_Witness ==
    /\ logic_pc = "terminated"
    /\ logic_command = 0
    /\ listener_to_server_logic # <<>>
    /\ last_received = <<>>
    /\ delivered = Len(listener_to_server_logic)

\* The number of inbound messages the logic thread has dispatched.
Dispatched == delivered - Len(listener_to_server_logic)

\* C18: the select of the scripted phase consumes one event. Its step either
\* takes the head of the inbox and leaves the rest queued, or consumes a
\* Quit and leaves the inbox as it is; so after the i-th scripted send
\* exactly i - 1 messages have been dispatched, one between each two
\* consecutive scripted sends, whatever is left on the inbox.
C18_OneEventPerSelect ==
    /\ [](/\ logic_pc \in {"for", "select_a"} => Dispatched = action_index - 1
          /\ logic_pc = "sleep" => Dispatched = action_index)
    /\ [][(logic_pc = "select_a" /\ LogicMoves) =>
            \/ /\ listener_to_server_logic # <<>>
               /\ listener_to_server_logic' = Tail(listener_to_server_logic)
               /\ logic_command' = logic_command
               /\ logic_pc' \in {"sleep", "panicked"}
            \/ /\ listener_to_server_logic' = listener_to_server_logic
               /\ logic_command' = logic_command - 1
               /\ logic_to_transmitter' = logic_to_transmitter]_vars

\* C18 witness: two messages were pending at the first selection; after the
\* second scripted send one has been dispatched and the other is still on
\* the inbox.
C18_Witness ==
    /\ logic_pc = "select_a"
    /\ action_index = 2
    /\ delivered = 2
    /\ Len(listener_to_server_logic) = 1
    /\ last_received # <<>>
    /\ Len(logic_to_transmitter) >= 2

\* The requests a script can hold.
ScriptRequests == { action[2] : action \in ScriptActions }

\* The message is a scripted request: media requests derived from a text
\* are MediaRequest::Media, which no script of ScriptActions holds.
IsScripted(message) ==
    /\ message.content.type = "Request"
    /\ message.content.value \in ScriptRequests

\* The subsequence of the outbox made of scripted requests.
ScriptedOnOutbox == SelectSeq(logic_to_transmitter, IsScripted)

\* C19: the scripted requests on the outbox, in the order sent, are a prefix
\* of the script: the i-th of them has the destination and the request of
\* the i-th scripted action, none skipped and none repeated.
C19_ScriptedPrefix ==
    \A scripted \in {ScriptedOnOutbox} :
        /\ Len(scripted) <= Len(actions)
        /\ \A i \in 1..Len(scripted) :
               /\ scripted[i].destination = actions[i][1]
               /\ scripted[i].content.value = actions[i][2]
        /\ logic_pc \in {"select_a", "sleep"} => Len(scripted) = action_index

\* C19 witness: both requests of the script (5, Text(doc)), (7, MediaList)
\* are on the outbox, with the two media requests of a text between them.
C19_Witness ==
    /\ actions = << <<5, TextRequestText(Doc)>>, <<7, MediaRequestMediaList>> >>
    /\ Len(logic_to_transmitter) = 4
    /\ Len(ScriptedOnOutbox) = 2
    /\ IsScripted(logic_to_transmitter[1])
    /\ IsScripted(logic_to_transmitter[4])

\* The request the for loop sends for the scripted action i.
IsScriptedRequest(message, i) ==
    /\ message.source = node_id
    /\ message.destination = actions[i][1]
    /\ message.content = Request(actions[i][2])

\* C20: a Text dispatched in the select after the i-th scripted send puts
\* its media requests right behind the i-th scripted request, which is the
\* last message of the outbox at that moment: one per citation, in citation
\* order (a.png then b.jpeg for the body of S2), to the source of the text;
\* the thread then sleeps, and the next message appended to the outbox is
\* the (i+1)-th scripted request.
C20_MediaRightAfterScripted ==
    [][/\ (logic_pc = "select_a" /\ TextArrives) =>
              /\ logic_to_transmitter # <<>>
              /\ IsScriptedRequest(logic_to_transmitter[Len(logic_to_transmitter)],
                                   action_index)
              /\ logic_to_transmitter' = logic_to_transmitter \o Added
              /\ Head(listener_to_server_logic).content.value.arg = BodyS2 =>
                     AddedNames = <<NamePng, NameJpeg>>
              /\ \A i \in 1..Len(Added) :
                     /\ Added[i].destination = Head(listener_to_server_logic).source
                     /\ Added[i].content = Request(MediaRequestMedia(AddedNames[i]))
              /\ logic_pc' = "sleep"
       /\ (logic_pc \in {"sleep", "for"} /\ logic_to_transmitter' # logic_to_transmitter) =>
              /\ logic_pc = "for"
              /\ Len(Added) = 1
              /\ logic_to_transmitter' = logic_to_transmitter \o Added
              /\ IsScriptedRequest(Added[1], action_index)]_vars

\* C20 witness: scenario S2. The script is [(5, Text(doc))]; the text of
\* node 5 citing a.png and b.jpeg was dispatched after the scripted send; the
\* outbox is the scripted request, the request for a.png, the request for
\* b.jpeg, all three to node 5.
C20_Witness ==
    /\ actions = << <<5, TextRequestText(Doc)>> >>
    /\ logic_pc = "sleep"
    /\ last_received # <<>>
    /\ IsText(last_received[1])
    /\ last_received[1].source = 5
    /\ Len(logic_to_transmitter) = 3
    /\ \A i \in 1..3 : logic_to_transmitter[i].destination = 5
    /\ logic_to_transmitter[1].content = Request(TextRequestText(Doc))
    /\ logic_to_transmitter[2].content = Request(MediaRequestMedia(NamePng))
    /\ logic_to_transmitter[3].content = Request(MediaRequestMedia(NameJpeg))

\* The number of valid media citations of a body: two for the body of S2,
\* and for a body made of pieces the number of its citation pieces.
Citations(body) ==
    IF body = BodyS2 THEN 2
    ELSE LET pieces == CHOOSE ps \in SeqsUpTo(Pieces, MaxPieces) : Render(ps) = body
         IN  Cardinality({ i \in 1..Len(pieces) : pieces[i] \in ValidCitations })

\* What a step owes the outbox: one message for a scripted send, one for a
\* dispatched Request, one per valid citation of a dispatched Text.
Owed ==
    (IF logic_pc = "for" /\ logic_pc' = "select_a" THEN 1 ELSE 0)
    + (IF Receives /\ Head(listener_to_server_logic).content.type = "Request"
       THEN 1 ELSE 0)
    + (IF TextArrives THEN Citations(Head(listener_to_server_logic).content.value.arg)
       ELSE 0)

\* C21: every step extends the outbox by exactly what it owes and removes
\* nothing from it; the outbox starts empty, so its length is always the
\* number of scripted sends, plus the number of Requests dispatched, plus
\* the number of valid citations of the Texts dispatched.
C21_OutboxAccounting ==
    [][/\ Len(logic_to_transmitter') = Len(logic_to_transmitter) + Owed
       /\ logic_to_transmitter' = logic_to_transmitter \o Added]_vars

\* C21 witness: after one scripted send, a Request and a Text citing two
\* media were dispatched: the outbox holds the scripted request, one error
\* reply and two media requests, four messages for 1 + 1 + 2.
C21_Witness ==
    /\ Len(actions) = 1
    /\ Dispatched = 2
    /\ listener_to_server_logic = <<>>
    /\ Len(logic_to_transmitter) = 4
    /\ Len(ScriptedOnOutbox) = 1
    /\ Cardinality({ i \in 1..4 : logic_to_transmitter[i].content.type = "Error" }) = 1
    /\ Cardinality({ i \in 1..4 :
                       /\ logic_to_transmitter[i].content.type = "Request"
                       /\ logic_to_transmitter[i].content.value.variant = "Media" }) = 2

\* C22: a Text with at least one valid citation makes the logic send its
\* media requests to the source of the text, whatever the outbox holds and
\* whatever the session id of the text is: no request to that source and no
\* request with that session id need ever have been sent.
C22_NoCorrelation ==
    [][(/\ TextArrives
        /\ Citations(Head(listener_to_server_logic).content.value.arg) > 0) =>
        /\ Len(Added) = Citations(Head(listener_to_server_logic).content.value.arg)
        /\ \A i \in 1..Len(Added) :
               /\ Added[i].destination = Head(listener_to_server_logic).source
               /\ Added[i].content.type = "Request"
               /\ Added[i].content.value.family = "MediaRequest"
               /\ Added[i].content.value.variant = "Media"]_vars

\* C22 witness: a client with an empty script, which never sent a request,
\* has dispatched a Text of node 7 with session id 42; the outbox holds only
\* media requests to node 7, none of them with session id 42.
C22_Witness ==
    /\ actions = <<>>
    /\ last_received # <<>>
    /\ IsText(last_received[1])
    /\ last_received[1].source = 7
    /\ last_received[1].session_id = 42
    /\ logic_to_transmitter # <<>>
    /\ \A i \in 1..Len(logic_to_transmitter) :
           /\ logic_to_transmitter[i].destination = 7
           /\ logic_to_transmitter[i].session_id # 42
           /\ logic_to_transmitter[i].content.value.family = "MediaRequest"

\* The supervisor waits on a command channel that is empty and disconnected.
ChannelClosed ==
    /\ sup_pc = "command_loop"
    /\ command = 0
    /\ command_tx_dropped

\* C23: a supervisor whose command channel is disconnected before a Quit
\* was received panics at its recv: its only step from there ends in the
\* panicked state; in that state no Quit was ever placed or received, none
\* was sent to a worker queue, the listener and the transmitter still run
\* and the logic thread was not told to quit; and the supervisor stays
\* there, so it never joins a worker.
C23_ClosurePanics ==
    /\ [][(ChannelClosed /\ sup_pc' # sup_pc) => sup_pc' = "panicked"]_vars
    /\ [](sup_pc = "panicked" =>
            /\ Spawned
            /\ command_tx_dropped
            /\ quits_requested = 0
            /\ quit_sends = <<>>
            /\ listener_command = 0
            /\ logic_command = 0
            /\ transmitter_command = 0
            /\ listener_pc = "running"
            /\ transmitter_pc = "running"
            /\ logic_pc # "terminated")
    /\ [][sup_pc = "panicked" => sup_pc' = "panicked"]_vars

\* C23 witness: the caller dropped its sender without a Quit and the
\* supervisor has panicked, while the three workers go on: the logic thread
\* waits in a selection after its scripted send.
C23_Witness ==
    /\ sup_pc = "panicked"
    /\ command_tx_dropped
    /\ quit_sends = <<>>
    /\ listener_pc = "running"
    /\ transmitter_pc = "running"
    /\ logic_pc = "select_a"
    /\ Len(logic_to_transmitter) = 1
====
